---------------------------- MODULE Spec2Model ----------------------------
(***************************************************************************)
(* Model of the slideshow composition engine of src/src/video_composer.py  *)
(* (VideoComposer.create_slideshow_with_subtitles and the methods it       *)
(* calls) together with src/src/background_music_generator.py.             *)
(*                                                                         *)
(* One composition run is a state machine whose steps are the waits on the *)
(* external encoder: one step per segment clip, one for the video          *)
(* concatenation, one for the audio concatenation, one for the subtitle    *)
(* file, one for the background music and one for the final mux followed   *)
(* by the output verification and the clean-up.  Every encoder invocation  *)
(* ends nondeterministically: with exit code 0 or not, and with an output  *)
(* file that is absent, empty or holds data.                               *)
(*                                                                         *)
(* Times are exact: Python computes them in binary floating point, the     *)
(* model in integer ticks, TicksPerCs ticks to the centisecond, chosen so  *)
(* that dividing by the speed factor and by a word count is exact.         *)
(***************************************************************************)
EXTENDS Integers, Sequences, FiniteSets, TLC

VARIABLES
    segments_data,            \* the argument: the ordered list of segments
    enable_subtitles,         \* self.config.enable_subtitles
    enable_background_music,  \* self.config.enable_background_music
    pc,                       \* the stage the run is in
    video_clips,              \* the local list video_clips (file names)
    clip_requests,            \* per clip: what the encoder was asked for
    concatenated_video,       \* the path concatenate_videos returned
    files,                    \* the output directory: file name -> content
    events,                   \* the Dialogue lines written to the .ass file
    mux,                      \* what the final mux was asked to combine
    bgm_result,               \* how generate_background_music ended
    error,                    \* the exception that left the function
    failed_site,              \* where that exception originated
    final_video,              \* the path returned to the caller
    invocations,              \* the external processes the run has started
    selected_music,           \* random.choice(available_music)
    timestamp,                \* int(time.time()) at the start of the run
    previous,                 \* the timelines of the earlier runs on these inputs
    tts_text,                 \* the argument of _convert_tts_to_subtitle_format
    subtitle_text,            \* what _convert_tts_to_subtitle_format has returned
    media_texts,              \* pipeline: per script segment, the keywords in title and text
    used_media_paths,         \* pipeline: the local set used_media_paths
    image_paths,              \* pipeline: per segment handled, the media found for it
    media_pc,                 \* pipeline: where the loop over the segments stands
    script,                   \* the argument of ScriptSegmenter.segment_script
    target_segment_duration,  \* config.segment_duration, in seconds
    script_segments,          \* what segment_script has returned
    concat_times,             \* the two int(time.time()) read by concatenate_videos
    other                     \* another run that composes into the same output directory

vars == <<segments_data, enable_subtitles, enable_background_music, pc,
          video_clips, clip_requests, concatenated_video, files, events,
          mux, bgm_result, error, failed_site, final_video, invocations,
          selected_music, timestamp, previous, tts_text, subtitle_text,
          media_texts, used_media_paths, image_paths, media_pc,
          script, target_segment_duration, script_segments, concat_times, other>>

\* the variables of one composition run
run_vars == <<segments_data, enable_subtitles, enable_background_music, pc,
              video_clips, clip_requests, concatenated_video, files, events,
              mux, bgm_result, error, failed_site, final_video, invocations,
              selected_music, timestamp, previous, concat_times>>

\* the variables of the text conversion taken on its own
text_vars == <<tts_text, subtitle_text>>

\* the variables of the media selection of the pipeline
media_vars == <<media_texts, used_media_paths, image_paths, media_pc>>

\* the variables of the script segmentation
script_vars == <<script, target_segment_duration, script_segments>>

\* no other run composes into the output directory
NoOther == [timestamp |-> 0, concat_times |-> <<>>, step |-> 0]

\* the pipeline around the composition runs, at rest
IdlePipeline ==
    /\ tts_text = <<>>
    /\ subtitle_text = <<>>
    /\ media_texts = <<>>
    /\ used_media_paths = {}
    /\ image_paths = <<>>
    /\ media_pc = "Idle"
    /\ script = <<>>
    /\ target_segment_duration = 0
    /\ script_segments = <<>>

\* everything outside the composition run, at rest
IdleOutside ==
    /\ other = NoOther
    /\ IdlePipeline

\* what no step of a composition run changes
beyond == <<timestamp, previous, text_vars, media_vars, script_vars, other>>

\* what a step of a composition run other than the concatenation of the
\* clips never changes
outside == <<concat_times, beyond>>

-----------------------------------------------------------------------------
(* Bounds of the model *)

MaxSegs == 2

-----------------------------------------------------------------------------
(* Small helpers *)

Max(a, b) == IF a >= b THEN a ELSE b

RECURSIVE Gcd(_, _)
Gcd(a, b) == IF b = 0 THEN a ELSE Gcd(b, a % b)

RECURSIVE LcmUpTo(_)
LcmUpTo(n) == IF n <= 1 THEN 1
              ELSE LET l == LcmUpTo(n - 1) IN (l * n) \div Gcd(l, n)

RECURSIVE SumSeq(_)
SumSeq(s) == IF s = <<>> THEN 0 ELSE Head(s) + SumSeq(Tail(s))

Last(s) == s[Len(s)]

None == "none"

-----------------------------------------------------------------------------
(* Text.  A text is a sequence of characters; a character is written as a  *)
(* one-element name: Korean syllables by their romanisation ("won" is the  *)
(* currency word, "eok" 10^8, "bun","gi" the quarter), " " is whitespace.  *)

Digits == {"0", "1", "2", "3", "4", "5", "6", "7", "8", "9"}

IsSpace(c) == c = " "

RECURSIVE RunLen(_, _)
\* length of the longest prefix of t whose characters are all in S
RunLen(t, S) == IF t = <<>> \/ Head(t) \notin S THEN 0
                ELSE 1 + RunLen(Tail(t), S)

Drop(t, n) == SubSeq(t, n + 1, Len(t))

RECURSIVE SubLiteral(_, _, _)
\* re.sub of a pattern without metacharacters: leftmost, non-overlapping
SubLiteral(t, pat, rep) ==
    IF Len(t) < Len(pat) THEN t
    ELSE IF SubSeq(t, 1, Len(pat)) = pat
         THEN rep \o SubLiteral(Drop(t, Len(pat)), pat, rep)
         ELSE <<Head(t)>> \o SubLiteral(Tail(t), pat, rep)

RECURSIVE SubNumberUnit(_, _)
\* re.sub(r'(\d+)\s*U', r'\1U'): a digit run, any whitespace, the unit U
SubNumberUnit(t, unit) ==
    IF t = <<>> THEN <<>>
    ELSE LET d == RunLen(t, Digits)
             s == RunLen(Drop(t, d), {" "})
         IN IF d > 0 /\ d + s + 1 <= Len(t) /\ t[d + s + 1] = unit
            THEN SubSeq(t, 1, d) \o <<unit>> \o SubNumberUnit(Drop(t, d + s + 1), unit)
            ELSE <<Head(t)>> \o SubNumberUnit(Tail(t), unit)

RECURSIVE SubSpaced(_, _, _, _)
\* re.sub(r'A\s*BC', rep): the character A, any whitespace, the literal BC
SubSpaced(t, first, rest, rep) ==
    IF t = <<>> THEN <<>>
    ELSE LET s == RunLen(Tail(t), {" "})
         IN IF Head(t) = first /\ 1 + s + Len(rest) <= Len(t)
               /\ SubSeq(t, s + 2, s + 1 + Len(rest)) = rest
            THEN rep \o SubSpaced(Drop(t, 1 + s + Len(rest)), first, rest, rep)
            ELSE <<Head(t)>> \o SubSpaced(Tail(t), first, rest, rep)

Lit(p, r) == [kind |-> "literal", pat |-> p, rest |-> <<>>, rep |-> r]
Num(u)    == [kind |-> "number_unit", pat |-> <<u>>, rest |-> <<>>, rep |-> <<>>]
Spaced(a, b, r) == [kind |-> "spaced", pat |-> <<a>>, rest |-> b, rep |-> r]

\* the list `replacements`, in its order
replacements ==
    << Lit(<<"peo", "sen", "teu">>, <<"%">>),
       Lit(<<"dal", "leo">>, <<"$">>),
       Lit(<<"won">>, <<"W">>),
       Lit(<<"il", "jeom", "o">>,   <<"1", ".", "5">>),
       Lit(<<"i", "jeom", "o">>,    <<"2", ".", "5">>),
       Lit(<<"sam", "jeom", "o">>,  <<"3", ".", "5">>),
       Lit(<<"sa", "jeom", "o">>,   <<"4", ".", "5">>),
       Lit(<<"o", "jeom", "o">>,    <<"5", ".", "5">>),
       Lit(<<"yuk", "jeom", "o">>,  <<"6", ".", "5">>),
       Lit(<<"chil", "jeom", "o">>, <<"7", ".", "5">>),
       Lit(<<"pal", "jeom", "o">>,  <<"8", ".", "5">>),
       Lit(<<"gu", "jeom", "o">>,   <<"9", ".", "5">>),
       Num("eok"),
       Num("man"),
       Spaced("il",  <<"bun", "gi">>, <<"1", "bun", "gi">>),
       Spaced("i",   <<"bun", "gi">>, <<"2", "bun", "gi">>),
       Spaced("sam", <<"bun", "gi">>, <<"3", "bun", "gi">>),
       Spaced("sa",  <<"bun", "gi">>, <<"4", "bun", "gi">>),
       Lit(<<"sip", "eok">>,   <<"1", "0", "eok">>),
       Lit(<<"baek", "eok">>,  <<"1", "0", "0", "eok">>),
       Lit(<<"cheon", "eok">>, <<"1", "0", "0", "0", "eok">>),
       Lit(<<"il", "jo">>,     <<"1", "jo">>) >>

ApplyReplacement(t, r) ==
    CASE r.kind = "literal"     -> SubLiteral(t, r.pat, r.rep)
      [] r.kind = "number_unit" -> SubNumberUnit(t, r.pat[1])
      [] r.kind = "spaced"      -> SubSpaced(t, r.pat[1], r.rest, r.rep)

RECURSIVE ApplyAll(_, _)
ApplyAll(t, rs) == IF rs = <<>> THEN t
                   ELSE ApplyAll(ApplyReplacement(t, Head(rs)), Tail(rs))

\* VideoComposer._convert_tts_to_subtitle_format
ConvertTtsToSubtitleFormat(text) == ApplyAll(text, replacements)

RECURSIVE Split(_)
\* str.split(): the maximal runs of non-whitespace characters, in order
Split(t) ==
    IF t = <<>> THEN <<>>
    ELSE IF IsSpace(Head(t)) THEN Split(Tail(t))
    ELSE LET n == CHOOSE k \in 1..Len(t) :
                      /\ \A j \in 1..k : ~IsSpace(t[j])
                      /\ (k = Len(t) \/ IsSpace(t[k + 1]))
         IN <<SubSeq(t, 1, n)>> \o Split(Drop(t, n))

RECURSIVE Join(_)
\* ' '.join(words)
Join(words) == IF words = <<>> THEN <<>>
               ELSE IF Len(words) = 1 THEN words[1]
               ELSE words[1] \o <<" ">> \o Join(Tail(words))

-----------------------------------------------------------------------------
(* The inputs a run is started with *)

Tok(c, n) == [j \in 1..n |-> c]

TextTwo     == Join(<<Tok("a", 3), Tok("b", 2)>>)
TextFive    == Join(<<Tok("a", 2), Tok("b", 3), Tok("c", 2), Tok("d", 3), Tok("e", 2)>>)
TextEmpty   == <<>>
TextLong    == Join(<<Tok("a", 7), Tok("b", 6), Tok("c", 3)>>)
TextWide    == Join(<<Tok("a", 13), Tok("b", 2), Tok("c", 2), Tok("d", 2)>>)
TextQuarter == <<"il", " ", "bun", "gi", " ", "a", "a">>
TextOne     == Tok("a", 1)

\* segment titles; "'" is the apostrophe, ":" the colon
TitleShort      == Tok("t", 3)
TitleTen        == Tok("t", 10)
TitleEleven     == Tok("t", 11)
TitleQuoteTen   == Tok("t", 4) \o <<"'">> \o Tok("t", 5)
TitleQuoteLate  == Tok("t", 9) \o <<"'">> \o Tok("t", 2)
TitleNone       == <<>>
TitleQuoteShort == <<"i", "t", "'", "s">>
TitleColon      == <<"a", ":", "b">>

Segment(d, t, v, title, vd) ==
    [audio_duration |-> d, text |-> t, is_video |-> v, title |-> title,
     video_duration |-> vd]

\* audio_duration is in centiseconds; is_video is _is_video_file(image_path);
\* title is segment.get('title', ''); video_duration is what
\* get_video_duration(image_path) returns, in centiseconds (0 for an image)
SegmentChoices ==
    { Segment(400, TextTwo, FALSE, TitleShort, 0),
      Segment(600, TextFive, TRUE, TitleTen, 250),
      Segment(500, TextEmpty, FALSE, TitleEleven, 0),
      Segment(600, TextLong, FALSE, TitleQuoteTen, 0),
      Segment(400, TextWide, TRUE, TitleQuoteLate, 200),
      Segment(500, TextQuarter, FALSE, TitleNone, 0),
      Segment(1, TextOne, FALSE, TitleQuoteShort, 0),
      Segment(300, TextTwo, TRUE, TitleColon, 900) }

\* the segment list of src/test_video_composition.py's expectation
ExampleSegments ==
    << Segment(400, TextTwo, FALSE, TitleShort, 0),
       Segment(600, TextFive, TRUE, TitleTen, 250),
       Segment(500, TextEmpty, FALSE, TitleEleven, 0) >>

SegmentLists ==
    UNION { [1..n -> SegmentChoices] : n \in 0..MaxSegs } \cup {ExampleSegments}

WordsOf(text) == Split(ConvertTtsToSubtitleFormat(text))

MaxWords ==
    LET counts == { Len(WordsOf(c.text)) : c \in SegmentChoices }
    IN CHOOSE m \in counts : \A n \in counts : n <= m

-----------------------------------------------------------------------------
(* Time *)

\* speed_factor = 1.2, as the fraction SpeedNum / SpeedDen
SpeedNum == 12
SpeedDen == 10

TicksPerCs == SpeedNum * LcmUpTo(MaxWords)

\* a duration given in centiseconds, in ticks
Cs(d) == d * TicksPerCs

\* x / speed_factor
DivideBySpeed(x) == (x * SpeedDen) \div SpeedNum

\* the clip keeps the duration of the audio at its original speed
ClipDurationUnscaled(segment) == Cs(segment.audio_duration)

\* clip_duration = segment['audio_duration'] / speed_factor
ClipDuration(segment) == DivideBySpeed(Cs(segment.audio_duration))

\* sum(seg['audio_duration'] for seg in segments_data) / speed_factor
TotalAudioDuration(segs) ==
    DivideBySpeed(SumSeq([k \in 1..Len(segs) |-> Cs(segs[k].audio_duration)]))

\* VideoComposer._format_ass_time: H:MM:SS.CC, every field truncated
FormatAssTime(t) ==
    LET cs == t \div TicksPerCs
    IN << cs \div 360000, (cs % 360000) \div 6000, (cs % 6000) \div 100, cs % 100 >>

-----------------------------------------------------------------------------
(* Step 1 of create_slideshow_with_subtitles: the title and the source of   *)
(* a clip                                                                  *)

max_title_length == 10

Ellipsis == <<".", ".", ".">>

\* segment.get('title', '').replace("'", "\\'")
EscapeQuote(title) == SubLiteral(title, <<"'">>, <<"\\", "'">>)

\* if len(segment_title) > max_title_length:
\*     segment_title = segment_title[:max_title_length] + "..."
TruncateTitle(segment_title) ==
    IF Len(segment_title) > max_title_length
    THEN SubSeq(segment_title, 1, max_title_length) \o Ellipsis
    ELSE segment_title

\* segment_title as it is handed to the overlay
SegmentTitle(segment) == TruncateTitle(EscapeQuote(segment.title))

\* one loop fewer than the source needs to span the target
NumLoopsShort(target_duration, video_duration) ==
    (target_duration \div video_duration) - 1

\* num_loops = int(target_duration / video_duration) + 1
NumLoops(target_duration, video_duration) ==
    (target_duration \div video_duration) + 1

\* the -stream_loop argument of _prepare_video_clip: num_loops when the
\* source is shorter than the target; when the source is trimmed the option
\* is not given, which is -stream_loop 0
StreamLoop(target_duration, video_duration) ==
    IF video_duration < target_duration
    THEN NumLoops(target_duration, video_duration)
    ELSE 0

-----------------------------------------------------------------------------
(* Step 4 of create_slideshow_with_subtitles: the caption events *)

total_words_per_subtitle == 4
max_chars_per_line == 12

\* the whole chunk is put on the first line
MidPointAll(chunk_word_count) == chunk_word_count

\* mid_point = (chunk_word_count + 1) // 2
MidPoint(chunk_word_count) == (chunk_word_count + 1) \div 2

RECURSIVE MoveWordsAppend(_, _)
\* the word taken from line 1 is appended to line 2 instead of inserted in front
MoveWordsAppend(line1_words, line2_words) ==
    IF Len(Join(line1_words)) > max_chars_per_line /\ Len(line1_words) > 1
    THEN MoveWordsAppend(SubSeq(line1_words, 1, Len(line1_words) - 1),
                         line2_words \o <<Last(line1_words)>>)
    ELSE <<line1_words, line2_words>>

RECURSIVE MoveWords(_, _)
\* while len(line1_text) > max_chars_per_line and len(line1_words) > 1:
\*     line2_words.insert(0, line1_words.pop())
MoveWords(line1_words, line2_words) ==
    IF Len(Join(line1_words)) > max_chars_per_line /\ Len(line1_words) > 1
    THEN MoveWords(SubSeq(line1_words, 1, Len(line1_words) - 1),
                   <<Last(line1_words)>> \o line2_words)
    ELSE <<line1_words, line2_words>>

\* the two word lists of a chunk after the split and the adjustment
LineWords(word_chunk) ==
    LET mid_point   == MidPoint(Len(word_chunk))
        line1_words == SubSeq(word_chunk, 1, mid_point)
        line2_words == SubSeq(word_chunk, mid_point + 1, Len(word_chunk))
    IN IF Len(Join(line1_words)) > max_chars_per_line /\ mid_point > 1
       THEN MoveWords(line1_words, line2_words)
       ELSE <<line1_words, line2_words>>

\* chunk_text: two lines joined by a newline, or the chunk on one line
ChunkText(word_chunk) ==
    LET lw == LineWords(word_chunk)
    IN IF Join(lw[2]) # <<>> /\ Len(lw[1]) > 0 /\ Len(lw[2]) > 0
       THEN Join(lw[1]) \o <<"\n">> \o Join(lw[2])
       ELSE Join(word_chunk)

HardSpaces == <<"\\", "h", "\\", "h">>

\* ass_text: newlines become \N, hard spaces pad both ends
AssText(chunk_text) ==
    HardSpaces \o SubLiteral(chunk_text, <<"\n">>, <<"\\", "N">>) \o HardSpaces

\* the duration is divided by one more than the number of words
TimePerWordOneMore(segment_duration, total_words) ==
    segment_duration \div (total_words + 1)

\* time_per_word = segment_duration / total_words
TimePerWord(segment_duration, total_words) == segment_duration \div total_words

\* the end of a chunk counted from zero instead of from the running clock
EndTimeNoClock(current_time, time_per_word, chunk_word_count) ==
    time_per_word * chunk_word_count

\* end_time = current_time + (time_per_word * chunk_word_count)
EndTime(current_time, time_per_word, chunk_word_count) ==
    current_time + time_per_word * chunk_word_count

\* the running clock is not advanced
AdvanceClockStuck(current_time, end_time) == current_time

\* current_time = end_time
AdvanceClock(current_time, end_time) == end_time

\* the Dialogue line written for one chunk
Dialogue(start_time, end_time, word_chunk, k) ==
    [ start_time |-> start_time, end_time |-> end_time,
      Start |-> FormatAssTime(start_time), End |-> FormatAssTime(end_time),
      Text |-> AssText(ChunkText(word_chunk)), segment |-> k ]

RECURSIVE ChunkLoop(_, _, _, _, _)
\* for i in range(0, total_words, total_words_per_subtitle), from offset i;
\* the result is <<the lines written, current_time after the loop>>
ChunkLoop(words, i, time_per_word, current_time, k) ==
    IF i >= Len(words) THEN <<<<>>, current_time>>
    ELSE LET hi         == IF i + total_words_per_subtitle <= Len(words)
                           THEN i + total_words_per_subtitle ELSE Len(words)
             word_chunk == SubSeq(words, i + 1, hi)
             start_time == current_time
             end_time   == EndTime(current_time, time_per_word, Len(word_chunk))
             rest       == ChunkLoop(words, i + total_words_per_subtitle, time_per_word,
                                     AdvanceClock(current_time, end_time), k)
         IN << <<Dialogue(start_time, end_time, word_chunk, k)>> \o rest[1], rest[2] >>

\* the duration of a segment shifted by the time of the run
SegmentDurationStamped(segment) ==
    DivideBySpeed(Cs(segment.audio_duration)) + Cs(timestamp)

\* segment_duration = segment['audio_duration'] / speed_factor
SegmentDuration(segment) == DivideBySpeed(Cs(segment.audio_duration))

RECURSIVE SegmentLoop(_, _, _)
\* for segment in segments_data, from the k-th segment on
SegmentLoop(segs, k, current_time) ==
    IF k > Len(segs) THEN <<>>
    ELSE LET words == WordsOf(segs[k].text)
         IN IF Len(words) = 0
            THEN SegmentLoop(segs, k + 1, current_time)
            ELSE LET r == ChunkLoop(words, 0,
                                    TimePerWord(SegmentDuration(segs[k]), Len(words)),
                                    current_time, k)
                 IN r[1] \o SegmentLoop(segs, k + 1, r[2])

\* the [Events] section of the subtitle file
SubtitleEvents(segs) == SegmentLoop(segs, 1, 0)

-----------------------------------------------------------------------------
(* The output directory and the external encoder *)

MaxClips == Max(MaxSegs, Len(ExampleSegments))

\* clip_{i}_{timestamp}.mp4
ClipName(i) == "clip_" \o ToString(i)

ClipNames == { ClipName(i) : i \in 0..(MaxClips - 1) }

FileNames ==
    ClipNames \cup
    { "concatenated", "concat_list", "audio_list", "concatenated_audio",
      "subtitles", "icon", "bgm", "final_shorts", "final_video" }

Contents == {"absent", "empty", "data"}

Stderrs == {"", "Invalid data found"}

\* how one encoder invocation ends: its exit code, what it wrote on stderr
\* and what it left at its output path
EncoderResults ==
    { [exit |-> 0, stderr |-> "", out |-> o] : o \in Contents } \cup
    { [exit |-> 1, stderr |-> e, out |-> o] : e \in Stderrs, o \in {"absent", "data"} }

\* the encoder cannot succeed on an input that is missing or empty
Encode(inputs_ok) ==
    IF inputs_ok THEN EncoderResults ELSE { r \in EncoderResults : r.exit # 0 }

\* Path.unlink(missing_ok=True) of every name in names
Unlink(fs, names) == [f \in FileNames |-> IF f \in names THEN "absent" ELSE fs[f]]

\* the stages that start an external process
Stages == {"clip", "concat_video", "concat_audio", "bgm", "final_mux"}

\* one external process of a run: the stage that started it, the clip it
\* renders (0 for the other stages), the inputs it is given, in the order
\* in which it is given them, how it ended and what it left at its output
\* path
Invocation(stage, index, inputs, r) ==
    [stage |-> stage, index |-> index, inputs |-> inputs, exit |-> r.exit,
     stderr |-> r.stderr, out |-> r.out]

-----------------------------------------------------------------------------
(* Errors *)

NoError == [type |-> None, message |-> <<>>, ffmpeg_output |-> None]

\* VideoCompositionError(message, ffmpeg_output=None)
VideoCompositionError(message) ==
    [type |-> "VideoCompositionError", message |-> message, ffmpeg_output |-> None]

\* e.stderr.decode('utf-8') if e.stderr else "No error output"
StderrOutput(stderr) == IF stderr = "" THEN "No error output" ELSE stderr

\* except subprocess.CalledProcessError as e, of create_slideshow_with_subtitles
OnCalledProcessError(stderr) ==
    VideoCompositionError(<<"Failed to create slideshow: ", StderrOutput(stderr)>>)

\* except Exception as e, of create_slideshow_with_subtitles; str_e is str(e)
OnException(str_e) ==
    VideoCompositionError(<<"Slideshow creation failed: ">> \o str_e)

FfmpegErrorStr == "ffmpeg error (see stderr output for detail)"
FfprobeErrorStr == "ffprobe error (see stderr output for detail)"

\* the places of a run where an exception originates
Sites ==
    { "no_segments", "mkdir", "image_clip", "video_probe", "video_clip",
      "concat_no_paths", "concat_input_missing", "concat_encoder",
      "concat_output_missing", "concat_output_empty", "audio_concat",
      "subtitle_write", "mixed_audio_unbound", "final_mux",
      "combine_video_missing", "combine_audio_missing", "combine_video_probe",
      "combine_audio_probe", "combine_encoder", "combine_output_missing",
      "combine_output_empty", "verify_missing", "verify_empty" }

\* an OSError that no except clause takes: it reaches the caller as it is
OSError(message) == [type |-> "OSError", message |-> message, ffmpeg_output |-> None]

\* the exception the caller receives for a failure at a site; detail is the
\* stderr of the failed invocation or the path the message names
ErrorAt(site, detail) ==
    CASE site = "no_segments" ->
           VideoCompositionError(<<"No segments provided for slideshow">>)
      [] site = "mkdir" -> OSError(<<"[Errno 13] Permission denied: ", detail>>)
      [] site = "image_clip" -> OnCalledProcessError(detail)
      [] site = "video_probe" ->
           OnException(<<"Failed to get video duration: ", FfprobeErrorStr>>)
      [] site = "video_clip" ->
           OnException(<<"Failed to prepare video clip: ", StderrOutput(detail)>>)
      [] site = "concat_no_paths" ->
           OnException(<<"No video paths provided for concatenation">>)
      [] site = "concat_input_missing" ->
           OnException(<<"Video file not found: ", detail>>)
      [] site = "concat_encoder" ->
           OnException(<<"ffmpeg failed to concatenate videos: ", StderrOutput(detail)>>)
      [] site = "concat_output_missing" ->
           OnException(<<"Video concatenation failed: ",
                         "Concatenated video file was not created">>)
      [] site = "concat_output_empty" ->
           OnException(<<"Video concatenation failed: ",
                         "Concatenated video file is empty">>)
      [] site = "audio_concat" -> OnCalledProcessError(detail)
      [] site = "subtitle_write" -> OnException(<<detail>>)
      [] site = "mixed_audio_unbound" ->
           OnException(<<"local variable 'mixed_audio' referenced before assignment">>)
      [] site = "final_mux" -> OnException(<<FfmpegErrorStr>>)
      [] site = "combine_video_missing" ->
           OnException(<<"Video file not found: ", detail>>)
      [] site = "combine_audio_missing" ->
           OnException(<<"Audio file not found: ", detail>>)
      [] site = "combine_video_probe" ->
           OnException(<<"Failed to get video duration: ", FfprobeErrorStr>>)
      [] site = "combine_audio_probe" ->
           OnException(<<"Failed to get audio duration: ", FfprobeErrorStr>>)
      [] site = "combine_encoder" ->
           OnException(<<"ffmpeg failed to combine video and audio: ",
                         StderrOutput(detail)>>)
      [] site = "combine_output_missing" ->
           OnException(<<"Video composition failed: ",
                         "Output video file was not created">>)
      [] site = "combine_output_empty" ->
           OnException(<<"Video composition failed: ", "Output video file is empty">>)
      [] site = "verify_missing" -> OnException(<<"Final video was not created">>)
      [] site = "verify_empty" -> OnException(<<"Final video is empty">>)

-----------------------------------------------------------------------------
(* The composition run *)

NoMux == [ran |-> FALSE, video |-> None, audio |-> None, audio_tempo |-> <<0, 0>>,
          subtitles |-> FALSE, music |-> FALSE, output |-> None,
          total_audio_duration |-> 0]

InitRun ==
    /\ segments_data \in SegmentLists
    /\ enable_subtitles \in BOOLEAN
    /\ enable_background_music \in BOOLEAN
    /\ pc = "Idle"
    /\ video_clips = <<>>
    /\ clip_requests = <<>>
    /\ concatenated_video = None
    /\ files = [f \in FileNames |-> "absent"]
    /\ events = <<>>
    /\ mux = NoMux
    /\ bgm_result = None
    /\ error = NoError
    /\ failed_site = None
    /\ final_video = None
    /\ invocations = <<>>
    /\ selected_music = None
    /\ timestamp = 0
    /\ previous = <<>>
    /\ concat_times = <<>>

Init ==
    /\ InitRun
    /\ IdleOutside

\* the failed step is left in place, to be taken again
RaiseAndRetry(site, detail) ==
    /\ pc' = pc
    /\ error' = ErrorAt(site, detail)
    /\ failed_site' = site

\* an exception leaves create_slideshow_with_subtitles: the except clauses
\* turn it into the error of its site and nothing else is done
Raise(site, detail) ==
    /\ pc' = "Failed"
    /\ error' = ErrorAt(site, detail)
    /\ failed_site' = site

\* the loop left one iteration early
AllClipsRenderedEarly(n) == n >= Len(segments_data) - 1

\* the loop over the segments has rendered n clips
AllClipsRendered(n) == n = Len(segments_data)

\* the temporary files removed before the final path is returned
CleanedUp ==
    { video_clips[k] : k \in 1..Len(video_clips) } \cup
    { concatenated_video, "concatenated_audio" } \cup
    (IF enable_subtitles THEN {"subtitles"} ELSE {})

\* two readings of int(time.time()) taken one after the other in a run
\* that started in the second ts: the run is in that second or in the next
ClockReadings(ts) ==
    { <<a, b>> : a \in {ts, ts + 1}, b \in {ts, ts + 1} } \ { <<ts + 1, ts>> }

\* the lines of the concat list: for video_path in video_paths
ConcatList(video_paths) == video_paths

\* the narration files are listed from the last segment to the first
AudioListReversed(segs) == [k \in 1..Len(segs) |-> Len(segs) + 1 - k]

\* the lines of the audio list: for segment in segments_data, the
\* segment's audio_path, named here by the segment's position
AudioList(segs) == [k \in 1..Len(segs) |-> k]

\* the inputs of the final mux: the video track and the narration track
MuxInputs == <<concatenated_video, "concatenated_audio">>

\* the music files _get_available_music_files finds
AvailableMusic == {"track_1", "track_2"}

\* the final file is checked for existence only
VerifyFinalVideoExists(content) ==
    IF content = "absent" THEN "verify_missing" ELSE None

\* if not final_video.exists(): raise; if file_size == 0: raise.  The site
\* that raises for a final file with this content, None when it passes
VerifyFinalVideo(content) ==
    IF content = "absent" THEN "verify_missing"
    ELSE IF content = "empty" THEN "verify_empty"
    ELSE None

\* the tempo of the narration in the subtitled mux: atempo = speed_factor
NarrationTempo == <<SpeedNum, SpeedDen>>

\* if not segments_data: raise; output_path.mkdir(...), which is outside
\* the try block; otherwise the run enters the try block
Start ==
    /\ pc = "Idle"
    /\ IF segments_data = <<>>
       THEN Raise("no_segments", "")
       ELSE \/ Raise("mkdir", "output")
            \/ /\ pc' = "SynthesizingClips"
               /\ UNCHANGED <<error, failed_site>>
    /\ UNCHANGED <<segments_data, enable_subtitles, enable_background_music,
                   video_clips, clip_requests, concatenated_video, files,
                   events, mux, bgm_result, final_video, invocations,
                   selected_music, outside>>

\* what the encoder is asked for to render the clip of segment i (from 0):
\* -t clip_duration, the output path, the title to draw and, for a video
\* source shorter than the clip, -stream_loop
ClipRequest(i) ==
    LET segment       == segments_data[i + 1]
        clip_duration == ClipDuration(segment)
        segment_title == SegmentTitle(segment)
    IN [segment |-> i + 1, duration |-> clip_duration, output |-> ClipName(i),
        source |-> IF segment.is_video THEN "video" ELSE "image",
        title |-> segment_title,
        stream_loop |-> IF segment.is_video
                        THEN StreamLoop(clip_duration, Cs(segment.video_duration))
                        ELSE 0]

\* Step 1, one iteration of the loop: the clip of segment i
RenderClip ==
    /\ pc = "SynthesizingClips"
    /\ LET i             == Len(video_clips)
           segment       == segments_data[i + 1]
           clip_output   == ClipName(i)
           request       == ClipRequest(i)
       IN \/ \* _prepare_video_clip: get_video_duration fails
             /\ segment.is_video
             /\ Raise("video_probe", "")
             /\ UNCHANGED <<video_clips, clip_requests, files, invocations>>
          \/ \E r \in EncoderResults :
                /\ clip_requests' = Append(clip_requests, request)
                /\ invocations' = Append(invocations, Invocation("clip", i, <<i + 1>>, r))
                /\ files' = [files EXCEPT ![clip_output] = r.out]
                /\ IF r.exit # 0
                   THEN /\ Raise(IF segment.is_video THEN "video_clip" ELSE "image_clip",
                                 r.stderr)
                        /\ UNCHANGED video_clips
                   ELSE /\ video_clips' = Append(video_clips, clip_output)
                        /\ pc' = IF AllClipsRendered(i + 1)
                                 THEN "ConcatenatingVideo" ELSE "SynthesizingClips"
                        /\ UNCHANGED <<error, failed_site>>
    /\ UNCHANGED <<segments_data, enable_subtitles, enable_background_music,
                   concatenated_video, events, mux, bgm_result, final_video,
                   selected_music, outside>>

\* Step 2: concatenate_videos(video_clips, output_dir)
ConcatenateVideos ==
    /\ pc = "ConcatenatingVideo"
    /\ LET missing == { k \in 1..Len(video_clips) : files[video_clips[k]] = "absent" }
           inputs_ok == \A k \in 1..Len(video_clips) : files[video_clips[k]] = "data"
       IN IF video_clips = <<>>
          THEN Raise("concat_no_paths", "")
               /\ UNCHANGED <<concatenated_video, files, invocations, concat_times>>
          ELSE IF Len(video_clips) = 1
          THEN /\ concatenated_video' = video_clips[1]
               /\ pc' = "ConcatenatingAudio"
               /\ UNCHANGED <<files, error, failed_site, invocations, concat_times>>
          ELSE IF missing # {}
          THEN /\ Raise("concat_input_missing",
                        video_clips[CHOOSE k \in missing : \A j \in missing : k <= j])
               /\ UNCHANGED <<concatenated_video, files, invocations, concat_times>>
          ELSE \E r \in Encode(inputs_ok), times \in ClockReadings(timestamp) :
                  \* the two output names are made from the clock
                  /\ concat_times' = times
                  \* the concat list is written, and removed on every path
                  /\ invocations' = Append(invocations, Invocation("concat_video", 0, ConcatList(video_clips), r))
                  /\ files' = [files EXCEPT !["concatenated"] = r.out,
                                            !["concat_list"] = "absent"]
                  /\ IF r.exit # 0
                     THEN Raise("concat_encoder", r.stderr) /\ UNCHANGED concatenated_video
                     ELSE IF r.out = "absent"
                     THEN Raise("concat_output_missing", "") /\ UNCHANGED concatenated_video
                     ELSE IF r.out = "empty"
                     THEN Raise("concat_output_empty", "") /\ UNCHANGED concatenated_video
                     ELSE /\ concatenated_video' = "concatenated"
                          /\ pc' = "ConcatenatingAudio"
                          /\ UNCHANGED <<error, failed_site>>
    /\ UNCHANGED <<segments_data, enable_subtitles, enable_background_music,
                   video_clips, clip_requests, events, mux, bgm_result, final_video,
                   selected_music, beyond>>

\* Step 3: the narration files are concatenated by stream copy
ConcatenateAudio ==
    /\ pc = "ConcatenatingAudio"
    /\ \E r \in EncoderResults :
          /\ invocations' = Append(invocations, Invocation("concat_audio", 0, AudioList(segments_data), r))
          /\ files' = [files EXCEPT !["concatenated_audio"] = r.out,
                                    !["audio_list"] =
                                        IF r.exit = 0 THEN "absent" ELSE "data"]
          /\ IF r.exit # 0
             THEN Raise("audio_concat", r.stderr)
             ELSE /\ pc' = IF enable_subtitles THEN "BuildingSubtitles" ELSE "FinalMux"
                  /\ UNCHANGED <<error, failed_site>>
    /\ UNCHANGED <<segments_data, enable_subtitles, enable_background_music,
                   video_clips, clip_requests, concatenated_video, events, mux,
                   bgm_result, final_video, selected_music, outside>>

\* Step 4: the .ass file is written
BuildSubtitles ==
    /\ pc = "BuildingSubtitles"
    /\ \/ \* open() or write() raises OSError
          /\ files' = [files EXCEPT !["subtitles"] = "empty"]
          /\ Raise("subtitle_write", "[Errno 28] No space left on device")
          /\ UNCHANGED events
       \/ /\ files' = [files EXCEPT !["subtitles"] = "data"]
          /\ pc' = "FinalMux"
          /\ events' = SubtitleEvents(segments_data)
          /\ UNCHANGED <<error, failed_site>>
    /\ UNCHANGED <<segments_data, enable_subtitles, enable_background_music,
                   video_clips, clip_requests, concatenated_video, mux,
                   bgm_result, final_video, invocations, selected_music, outside>>

\* Step 5 with background music enabled, up to the output graph: the icon
\* is saved, generate_background_music is called, and the output is built
PrepareFinalMux ==
    /\ pc = "FinalMux"
    /\ enable_subtitles
    /\ enable_background_music
    /\ bgm_result = None
    /\ \E r \in EncoderResults, selected \in AvailableMusic :
          /\ files' = [files EXCEPT !["icon"] = "data", !["bgm"] = r.out]
          /\ invocations' = Append(invocations, Invocation("bgm", 0, <<>>, r))
          /\ selected_music' = selected
          /\ IF r.exit = 0 /\ r.out = "data"
             THEN \* mixed_audio is assigned; the output uses it
                  /\ bgm_result' = "generated"
                  /\ UNCHANGED <<pc, error, failed_site>>
             ELSE \* generate_background_music raises VideoGenerationError; the
                  \* handler builds the narration-only output, and the statement
                  \* after the handler then reads mixed_audio, which is unbound
                  /\ bgm_result' = "failed"
                  /\ Raise("mixed_audio_unbound", "")
    /\ UNCHANGED <<segments_data, enable_subtitles, enable_background_music,
                   video_clips, clip_requests, concatenated_video, events, mux,
                   final_video, outside>>

\* Step 5 with subtitles: ffmpeg.run(output), the verification of the final
\* file, the clean-up and the return
RunFinalMux ==
    /\ pc = "FinalMux"
    /\ enable_subtitles
    /\ enable_background_music => bgm_result = "generated"
    /\ LET inputs_ok == /\ files[concatenated_video] = "data"
                        /\ files["concatenated_audio"] = "data"
                        /\ files["subtitles"] = "data"
       IN \E r \in Encode(inputs_ok) :
             LET written == [files EXCEPT !["icon"] = "data", !["final_shorts"] = r.out]
             IN /\ mux' = [ran |-> TRUE, video |-> concatenated_video,
                           audio |-> "concatenated_audio",
                           audio_tempo |-> NarrationTempo, subtitles |-> TRUE,
                           music |-> enable_background_music,
                           output |-> "final_shorts",
                           total_audio_duration |->
                               TotalAudioDuration(segments_data)]
                /\ invocations' = Append(invocations, Invocation("final_mux", 0, MuxInputs, r))
                /\ IF r.exit # 0
                   THEN Raise("final_mux", r.stderr)
                        /\ files' = written /\ UNCHANGED final_video
                   ELSE IF VerifyFinalVideo(r.out) # None
                   THEN Raise(VerifyFinalVideo(r.out), "")
                        /\ files' = written /\ UNCHANGED final_video
                   ELSE /\ files' = Unlink(written, CleanedUp)
                        /\ final_video' = "final_shorts"
                        /\ pc' = "Done"
                        /\ UNCHANGED <<error, failed_site>>
    /\ UNCHANGED <<segments_data, enable_subtitles, enable_background_music,
                   video_clips, clip_requests, concatenated_video, events,
                   bgm_result, selected_music, outside>>

\* Step 5 without subtitles: combine_video_audio(concatenated_video,
\* concatenated_audio, output_dir), then the verification, the clean-up and
\* the return.  The narration is muxed as it is: no atempo filter.
CombineVideoAudio ==
    /\ pc = "FinalMux"
    /\ ~enable_subtitles
    /\ IF files[concatenated_video] = "absent"
       THEN Raise("combine_video_missing", concatenated_video)
            /\ UNCHANGED <<files, mux, final_video, invocations>>
       ELSE IF files["concatenated_audio"] = "absent"
       THEN Raise("combine_audio_missing", "concatenated_audio")
            /\ UNCHANGED <<files, mux, final_video, invocations>>
       ELSE IF files[concatenated_video] # "data"
       THEN Raise("combine_video_probe", "")
            /\ UNCHANGED <<files, mux, final_video, invocations>>
       ELSE IF files["concatenated_audio"] # "data"
       THEN Raise("combine_audio_probe", "")
            /\ UNCHANGED <<files, mux, final_video, invocations>>
       ELSE \E r \in EncoderResults :
               LET written == [files EXCEPT !["final_video"] = r.out]
               IN /\ mux' = [ran |-> TRUE, video |-> concatenated_video,
                             audio |-> "concatenated_audio",
                             audio_tempo |-> <<1, 1>>, subtitles |-> FALSE,
                             music |-> FALSE, output |-> "final_video",
                             total_audio_duration |-> 0]
                  /\ invocations' = Append(invocations, Invocation("final_mux", 0, MuxInputs, r))
                  /\ IF r.exit # 0
                     THEN Raise("combine_encoder", r.stderr)
                          /\ files' = written /\ UNCHANGED final_video
                     ELSE IF r.out = "absent"
                     THEN Raise("combine_output_missing", "")
                          /\ files' = written /\ UNCHANGED final_video
                     ELSE IF r.out = "empty"
                     THEN Raise("combine_output_empty", "")
                          /\ files' = written /\ UNCHANGED final_video
                     ELSE IF VerifyFinalVideo(r.out) # None
                     THEN Raise(VerifyFinalVideo(r.out), "")
                          /\ files' = written /\ UNCHANGED final_video
                     ELSE /\ files' = Unlink(written, CleanedUp)
                          /\ final_video' = "final_video"
                          /\ pc' = "Done"
                          /\ UNCHANGED <<error, failed_site>>
    /\ UNCHANGED <<segments_data, enable_subtitles, enable_background_music,
                   video_clips, clip_requests, concatenated_video, events,
                   bgm_result, selected_music, outside>>

Next ==
    \/ Start
    \/ RenderClip
    \/ ConcatenateVideos
    \/ ConcatenateAudio
    \/ BuildSubtitles
    \/ PrepareFinalMux
    \/ RunFinalMux
    \/ CombineVideoAudio

Spec == Init /\ [][Next]_vars

-----------------------------------------------------------------------------
(* The run and its environment: the external process that does not exit,   *)
(* and the interrupt of the caller                                         *)

\* the run is about to start an external process and wait for its exit
WaitsOnProcess ==
    \/ pc = "SynthesizingClips"
    \/ /\ pc = "ConcatenatingVideo"
       /\ Len(video_clips) > 1
       /\ \A k \in 1..Len(video_clips) : files[video_clips[k]] # "absent"
    \/ pc = "ConcatenatingAudio"
    \/ /\ pc = "FinalMux"
       /\ IF enable_subtitles
          THEN enable_background_music => bgm_result = "generated"
          ELSE /\ files[concatenated_video] = "data"
               /\ files["concatenated_audio"] = "data"

\* the stage of that process
RunningStage ==
    CASE pc = "SynthesizingClips"  -> "clip"
      [] pc = "ConcatenatingVideo" -> "concat_video"
      [] pc = "ConcatenatingAudio" -> "concat_audio"
      [] OTHER                     -> "final_mux"

\* the path it writes to
RunningOutput ==
    CASE pc = "SynthesizingClips"  -> ClipName(Len(video_clips))
      [] pc = "ConcatenatingVideo" -> "concatenated"
      [] pc = "ConcatenatingAudio" -> "concatenated_audio"
      [] OTHER -> IF enable_subtitles THEN "final_shorts" ELSE "final_video"

\* the files the stage has written before it starts the process
RunningLists ==
    CASE pc = "ConcatenatingVideo" -> {"concat_list"}
      [] pc = "ConcatenatingAudio" -> {"audio_list"}
      [] pc = "FinalMux" /\ enable_subtitles -> {"icon"}
      [] OTHER -> {}

\* the inputs it is given
RunningInputs ==
    CASE pc = "SynthesizingClips"  -> <<Len(video_clips) + 1>>
      [] pc = "ConcatenatingVideo" -> ConcatList(video_clips)
      [] pc = "ConcatenatingAudio" -> AudioList(segments_data)
      [] OTHER                     -> MuxInputs

\* the process is started and the run stops waiting for it with `exit`
\* recorded as how the process stands; out is what it has written so far
StartProcess(exit, out) ==
    /\ files' = [f \in FileNames |->
                    IF f = RunningOutput THEN out
                    ELSE IF f \in RunningLists THEN "data" ELSE files[f]]
    /\ invocations' = Append(invocations,
                             [stage |-> RunningStage,
                              index |-> IF pc = "SynthesizingClips"
                                        THEN Len(video_clips) ELSE 0,
                              inputs |-> RunningInputs,
                              exit |-> exit, stderr |-> "", out |-> out])
    /\ clip_requests' = IF pc = "SynthesizingClips"
                        THEN Append(clip_requests, ClipRequest(Len(video_clips)))
                        ELSE clip_requests

\* the returncode of a process ended by Popen.kill()
Killed == -9

\* the exit code recorded for a process that has not exited
NoExit == -1

\* how an interrupted wait leaves the process: subprocess.run kills it
\* before the exception goes on; ffmpeg.run (the final mux) does not
ProcessEnds == IF pc = "FinalMux" THEN {Killed, NoExit} ELSE {Killed}

KeyboardInterrupt == [type |-> "KeyboardInterrupt", message |-> <<>>, ffmpeg_output |-> None]

\* the caller interrupts the run while it waits for a process: the
\* KeyboardInterrupt is not an Exception, so no except clause of the engine
\* runs, and main() takes it
Interrupt ==
    /\ WaitsOnProcess
    /\ \E exit \in ProcessEnds, out \in Contents : StartProcess(exit, out)
    /\ pc' = "Interrupted"
    /\ error' = KeyboardInterrupt
    /\ failed_site' = "interrupt"
    /\ UNCHANGED <<segments_data, enable_subtitles, enable_background_music,
                   video_clips, concatenated_video, events, mux, bgm_result,
                   final_video, selected_music, outside>>

\* the process never exits: subprocess.run and ffmpeg.run are called
\* without a timeout, so the run waits in this step for ever
Hang ==
    /\ WaitsOnProcess
    /\ \E out \in Contents : StartProcess(NoExit, out)
    /\ pc' = "Waiting"
    /\ UNCHANGED <<segments_data, enable_subtitles, enable_background_music,
                   video_clips, concatenated_video, events, mux, bgm_result,
                   error, failed_site, final_video, selected_music, outside>>

\* the timeline values a run has computed: the clip durations, the caption
\* events and total_audio_duration (0 in a run without subtitles, which
\* does not compute it), with the timestamp and the music file of that run
Timeline ==
    [timestamp |-> timestamp, selected_music |-> selected_music,
     clip_durations |-> [k \in 1..Len(clip_requests) |-> clip_requests[k].duration],
     events |-> events,
     total_audio_duration |-> mux.total_audio_duration]

\* the caller composes the same segment list once more, in the same second
\* or in a later one, into the same output directory
RunAgain ==
    /\ pc = "Done"
    /\ previous = <<>>
    /\ previous' = <<Timeline>>
    /\ timestamp' \in {timestamp, timestamp + 1}
    /\ pc' = "Idle"
    /\ video_clips' = <<>>
    /\ clip_requests' = <<>>
    /\ concatenated_video' = None
    /\ events' = <<>>
    /\ mux' = NoMux
    /\ bgm_result' = None
    /\ error' = NoError
    /\ failed_site' = None
    /\ final_video' = None
    /\ invocations' = <<>>
    /\ selected_music' = None
    /\ concat_times' = <<>>
    /\ UNCHANGED <<segments_data, enable_subtitles, enable_background_music,
                   files, text_vars, media_vars, script_vars, other>>

NextInterrupt == Next \/ Interrupt

\* the runs of an engine whose caller may interrupt it
SpecInterrupt == Init /\ [][NextInterrupt]_vars

\* the segments of the lists that are composed twice
ReplayChoices ==
    { c \in SegmentChoices : c.title \in {TitleTen, TitleEleven, TitleQuoteTen} }

InitAgain ==
    /\ Init
    /\ \A k \in 1..Len(segments_data) : segments_data[k] \in ReplayChoices

NextAgain == Next \/ RunAgain

\* two runs, one after the other, on the same inputs
SpecAgain == InitAgain /\ [][NextAgain]_vars

-----------------------------------------------------------------------------
(* Two runs in one output directory *)

\* the path of the file `name` of a run that started in the second ts and
\* read the clock as `times` in concatenate_videos: clip_{i}_{timestamp}.mp4,
\* concatenated_{int(time.time())}.mp4, concat_list_{int(time.time())}.txt,
\* audio_list_{timestamp}.txt, concatenated_audio_{timestamp}.mp3,
\* subtitles_{timestamp}.ass and final_shorts_{timestamp}.mp4
Path(name, ts, times) ==
    IF name = "concatenated" THEN <<name, times[1]>>
    ELSE IF name = "concat_list" THEN <<name, times[2]>>
    ELSE <<name, ts>>

\* what a subtitled run of two segments does to the files of the output
\* directory, in the order of the code
OtherSteps ==
    << [op |-> "write",  name |-> ClipName(0)],
       [op |-> "write",  name |-> ClipName(1)],
       [op |-> "write",  name |-> "concat_list"],
       [op |-> "write",  name |-> "concatenated"],
       [op |-> "unlink", name |-> "concat_list"],
       [op |-> "write",  name |-> "audio_list"],
       [op |-> "write",  name |-> "concatenated_audio"],
       [op |-> "unlink", name |-> "audio_list"],
       [op |-> "write",  name |-> "subtitles"],
       [op |-> "write",  name |-> "final_shorts"],
       [op |-> "unlink", name |-> ClipName(0)],
       [op |-> "unlink", name |-> ClipName(1)],
       [op |-> "unlink", name |-> "concatenated"],
       [op |-> "unlink", name |-> "concatenated_audio"],
       [op |-> "unlink", name |-> "subtitles"] >>

\* the other run's file `name` is at the path of this run's file `name`
SamePath(name, times) ==
    IF name \in {"concatenated", "concat_list"}
    THEN /\ concat_times # <<>>
         /\ Path(name, other.timestamp, times) = Path(name, timestamp, concat_times)
    ELSE other.timestamp = timestamp

\* the other run takes its next step on the output directory; its two
\* clock readings are taken when it enters concatenate_videos
OtherRunStep ==
    /\ other.step < Len(OtherSteps)
    /\ LET s == OtherSteps[other.step + 1]
       IN \E times \in (IF s = [op |-> "write", name |-> "concat_list"]
                         THEN ClockReadings(other.timestamp)
                         ELSE {other.concat_times}) :
             /\ other' = [other EXCEPT !.step = @ + 1, !.concat_times = times]
             /\ files' = IF SamePath(s.name, times)
                         THEN [files EXCEPT ![s.name] =
                                   IF s.op = "write" THEN "data" ELSE "absent"]
                         ELSE files
    /\ UNCHANGED <<segments_data, enable_subtitles, enable_background_music, pc,
                   video_clips, clip_requests, concatenated_video, events, mux,
                   bgm_result, error, failed_site, final_video, invocations,
                   selected_music, concat_times, timestamp, previous,
                   text_vars, media_vars, script_vars>>

\* the segments of the lists composed next to another run
SharedChoices == { c \in SegmentChoices : c.title = TitleTen }

\* the other run starts in the second of this run or in the next one
InitShared ==
    /\ InitRun
    /\ \A k \in 1..Len(segments_data) : segments_data[k] \in SharedChoices
    /\ other \in { [timestamp |-> ts, concat_times |-> <<>>, step |-> 0] :
                      ts \in {timestamp, timestamp + 1} }
    /\ IdlePipeline

NextShared == Next \/ OtherRunStep

\* two runs at the same time in one output directory
SpecShared == InitShared /\ [][NextShared]_vars

NextHang == Next \/ Hang

-----------------------------------------------------------------------------
(* _convert_tts_to_subtitle_format on its own *)

MaxTextLen == 3

\* "geun" is a syllable of no number or currency word ("geun","won" is the
\* word for origin); "man" is 10^4, "baek" 100, "cheon" 1000, "jak","nyeon"
\* last year
TextAlphabet == {"geun", "won", "man", "1", "baek", "eok"}

\* the inputs of src/test_comprehensive_fixes.py that are about won, 100
\* eok and the quarter
TestInputs ==
    { <<"geun", "won">>,
      <<"1", "0", "0", "won">>,
      <<"man", "won">>,
      <<"il", "cheon", "i", "baek", "eok">>,
      <<"baek", "eok">>,
      <<"jak", "nyeon", "il", "bun", "gi">> }

TtsTexts ==
    UNION { [1..n -> TextAlphabet] : n \in 0..MaxTextLen } \cup TestInputs

InitConvert ==
    /\ tts_text \in TtsTexts
    /\ subtitle_text = <<>>
    /\ segments_data = <<>>
    /\ enable_subtitles = FALSE
    /\ enable_background_music = FALSE
    /\ pc = "Idle"
    /\ video_clips = <<>>
    /\ clip_requests = <<>>
    /\ concatenated_video = None
    /\ files = [f \in FileNames |-> "absent"]
    /\ events = <<>>
    /\ mux = NoMux
    /\ bgm_result = None
    /\ error = NoError
    /\ failed_site = None
    /\ final_video = None
    /\ invocations = <<>>
    /\ selected_music = None
    /\ timestamp = 0
    /\ previous = <<>>
    /\ concat_times = <<>>
    /\ other = NoOther
    /\ media_texts = <<>>
    /\ used_media_paths = {}
    /\ image_paths = <<>>
    /\ media_pc = "Idle"
    /\ script = <<>>
    /\ target_segment_duration = 0
    /\ script_segments = <<>>

\* subtitle_text = self._convert_tts_to_subtitle_format(text)
Convert ==
    /\ subtitle_text = <<>>
    /\ subtitle_text' = <<ConvertTtsToSubtitleFormat(tts_text)>>
    /\ UNCHANGED <<run_vars, tts_text, media_vars, script_vars, other>>

SpecConvert == InitConvert /\ [][Convert]_vars

-----------------------------------------------------------------------------
(* The media selection of VideoPipeline._process_single_article:           *)
(* MediaMatcher.find_matching_media and the set used_media_paths           *)

MaxMediaSegs == 3

\* a composition run that is not started
IdleRun ==
    /\ segments_data = <<>>
    /\ enable_subtitles = FALSE
    /\ enable_background_music = FALSE
    /\ pc = "Idle"
    /\ video_clips = <<>>
    /\ clip_requests = <<>>
    /\ concatenated_video = None
    /\ files = [f \in FileNames |-> "absent"]
    /\ events = <<>>
    /\ mux = NoMux
    /\ bgm_result = None
    /\ error = NoError
    /\ failed_site = None
    /\ final_video = None
    /\ invocations = <<>>
    /\ selected_music = None
    /\ timestamp = 0
    /\ previous = <<>>
    /\ concat_times = <<>>

\* three of the keys of self.keyword_mappings
Keywords == {"default", "gdp growth", "gdp"}

\* self.keyword_mappings: keyword -> folder names
keyword_mappings ==
    [keyword \in Keywords |->
        CASE keyword = "default"    -> {"crisis"}
          [] keyword = "gdp growth" -> {"growth", "economy"}
          [] keyword = "gdp"        -> {"economy"}]

\* f"{title} {text}".lower(), as the set of the keywords it contains; a
\* text that contains "gdp growth" contains "gdp"
CombinedTexts ==
    { {}, {"default"}, {"gdp"}, {"gdp", "gdp growth"}, {"default", "gdp"} }

\* the directory self.media_dir: folder -> the files globbed in it.
\* economy/a_link.mp4 is a symbolic link to crisis/a.mp4, growth/d.mp4 a
\* symbolic link into a content-addressed store, whose names have no suffix
media_dir ==
    [folder \in {"crisis", "economy", "growth"} |->
        CASE folder = "crisis"  -> {"crisis/a.mp4", "crisis/b.png"}
          [] folder = "economy" -> {"economy/c.mp4", "economy/a_link.mp4"}
          [] folder = "growth"  -> {"growth/d.mp4"}]

\* Path(p).resolve()
Resolve(p) ==
    CASE p = "economy/a_link.mp4" -> "crisis/a.mp4"
      [] p = "growth/d.mp4"       -> "cache/3f9a"
      [] OTHER                    -> p

\* Path(p).suffix.lower()
Suffix(p) ==
    CASE p \in {"crisis/a.mp4", "economy/c.mp4", "economy/a_link.mp4",
                "growth/d.mp4"} -> ".mp4"
      [] p = "crisis/b.png" -> ".png"
      [] OTHER -> ""

\* ['.mp4', '.mov', '.avi']
VideoSuffixes == {".mp4", ".mov", ".avi"}

\* the values find_matching_media can return for a text and a set of used
\* paths: None, or any of the files random.choice chooses from
FindMatchingMedia(combined_text, used_media) ==
    LET matched_folders  == UNION { keyword_mappings[k] : k \in combined_text }
        media_files      == UNION { media_dir[folder] : folder \in matched_folders }
        video_files      == { f \in media_files : Suffix(f) \in VideoSuffixes }
        image_files      == media_files \ video_files
        used_media_paths_ == { Resolve(p) : p \in used_media }
        available_videos == { f \in video_files : Resolve(f) \notin used_media_paths_ }
        available_images == image_files
        available_media  == IF available_videos # {} THEN available_videos
                            ELSE available_images
    IN IF matched_folders = {} \/ media_files = {} \/ available_media = {}
       THEN {None}
       ELSE available_media

\* the path an image generated for the segment is saved under
GeneratedImage == "generated.png"

\* media_path_obj = Path(image_path).resolve()
\* if media_path_obj.suffix.lower() in ['.mp4', '.mov', '.avi']:
\*     used_media_paths.add(str(media_path_obj))
Track(used_media, image_path) ==
    IF Suffix(Resolve(image_path)) \in VideoSuffixes
    THEN used_media \cup {Resolve(image_path)}
    ELSE used_media

\* one iteration of `for segment in script_segments`, up to the media of
\* the segment
MatchSegment ==
    /\ media_pc = "Matching"
    /\ LET n       == Len(image_paths) + 1
           segment == media_texts[n]
           next_pc == IF n = Len(media_texts) THEN "Matched" ELSE "Matching"
       IN \/ \* the title or the image prompt is not generated
             /\ media_pc' = "Failed"
             /\ UNCHANGED <<image_paths, used_media_paths>>
          \/ \E image_path \in FindMatchingMedia(segment, used_media_paths) :
                IF image_path = None
                THEN \/ \* generate_image raises VideoGenerationError
                        /\ media_pc' = "Failed"
                        /\ UNCHANGED <<image_paths, used_media_paths>>
                     \/ /\ image_paths' = Append(image_paths, GeneratedImage)
                        /\ media_pc' = next_pc
                        /\ UNCHANGED used_media_paths
                ELSE /\ image_paths' = Append(image_paths, image_path)
                     /\ used_media_paths' = Track(used_media_paths, image_path)
                     /\ media_pc' = next_pc
    /\ UNCHANGED <<run_vars, text_vars, media_texts, script_vars, other>>

InitMedia ==
    /\ IdleRun
    /\ other = NoOther
    /\ tts_text = <<>>
    /\ subtitle_text = <<>>
    /\ script = <<>>
    /\ target_segment_duration = 0
    /\ script_segments = <<>>
    /\ media_texts \in UNION { [1..n -> CombinedTexts] : n \in 1..MaxMediaSegs }
    /\ used_media_paths = {}
    /\ image_paths = <<>>
    /\ media_pc = "Matching"

\* the loop over the script segments of one article
SpecMedia == InitMedia /\ [][MatchSegment]_vars

-----------------------------------------------------------------------------
(* ScriptSegmenter.segment_script *)

MaxPieces == 4

\* KOREAN_WORDS_PER_SECOND = 4.75, as the fraction 475 / 100
WordsPerSecondNum == 475
WordsPerSecondDen == 100

Punctuation == {".", "!", "?"}

RECURSIVE SplitParts(_)
\* re.split(r'([.!?])\s*', text): the text before the first mark, the mark,
\* and the parts of what follows the mark and the whitespace after it
SplitParts(t) ==
    LET marks == { q \in 1..Len(t) : t[q] \in Punctuation }
    IN IF marks = {} THEN <<t>>
       ELSE LET q == CHOOSE m \in marks : \A n \in marks : m <= n
                s == RunLen(Drop(t, q), {" "})
            IN <<SubSeq(t, 1, q - 1), <<t[q]>>>> \o SplitParts(Drop(t, q + s))

RECURSIVE Strip(_)
\* str.strip()
Strip(t) ==
    IF t = <<>> THEN <<>>
    ELSE IF IsSpace(Head(t)) THEN Strip(Tail(t))
    ELSE IF IsSpace(Last(t)) THEN Strip(SubSeq(t, 1, Len(t) - 1))
    ELSE t

RECURSIVE Reconstruct(_, _)
\* for i in range(0, len(parts) - 1, 2), from i on
Reconstruct(parts, i) ==
    IF i >= Len(parts) - 1 THEN <<>>
    ELSE LET found ==
                 IF i + 1 < Len(parts)
                 THEN LET sentence == parts[i + 1] \o parts[i + 2]
                      IN IF Strip(sentence) # <<>> THEN <<Strip(sentence)>> ELSE <<>>
                 ELSE IF Strip(parts[i + 1]) # <<>> THEN <<Strip(parts[i + 1])>>
                 ELSE <<>>
         IN found \o Reconstruct(parts, i + 2)

\* ScriptSegmenter._split_into_sentences
SplitIntoSentences(text) ==
    LET parts     == SplitParts(text)
        sentences == Reconstruct(parts, 0) \o
                     (IF Len(parts) % 2 = 1 /\ Strip(Last(parts)) # <<>>
                      THEN <<Strip(Last(parts))>> ELSE <<>>)
    IN SelectSeq(sentences, LAMBDA s : s # <<>>)

\* target_words_per_segment = int(target_segment_duration * 4.75)
TargetWordsPerSegment(duration) ==
    (duration * WordsPerSecondNum) \div WordsPerSecondDen

\* a segment is closed before every sentence, also when it holds nothing
ExceedsTargetAlways(current_word_count, sentence_words, target_words_per_segment) ==
    (current_word_count + sentence_words) * 10 > target_words_per_segment * 13

\* current_word_count > 0 and
\* current_word_count + sentence_words > target_words_per_segment * 1.3
ExceedsTarget(current_word_count, sentence_words, target_words_per_segment) ==
    /\ current_word_count > 0
    /\ (current_word_count + sentence_words) * 10 > target_words_per_segment * 13

\* ScriptSegment(text, segment_number, estimated_duration, word_count);
\* estimated_duration = current_word_count / 4.75, as a fraction
ScriptSegment(current_segment_text, segment_number, current_word_count) ==
    [text |-> Strip(Join(current_segment_text)),
     segment_number |-> segment_number,
     estimated_duration |-> <<current_word_count * WordsPerSecondDen, WordsPerSecondNum>>,
     word_count |-> current_word_count]

RECURSIVE GroupSentences(_, _, _, _, _, _, _)
\* for sentence in sentences, from the i-th on, and the final segment
GroupSentences(sentences, i, target, segments, current_segment_text, current_word_count, segment_number) ==
    IF i > Len(sentences)
    THEN IF current_segment_text # <<>>
         THEN Append(segments, ScriptSegment(current_segment_text, segment_number,
                                             current_word_count))
         ELSE segments
    ELSE LET sentence       == sentences[i]
             sentence_words == Len(Split(sentence))
         IN IF ExceedsTarget(current_word_count, sentence_words, target)
            THEN GroupSentences(sentences, i + 1, target,
                                Append(segments,
                                       ScriptSegment(current_segment_text, segment_number,
                                                     current_word_count)),
                                <<sentence>>, sentence_words, segment_number + 1)
            ELSE GroupSentences(sentences, i + 1, target, segments,
                                Append(current_segment_text, sentence),
                                current_word_count + sentence_words, segment_number)

\* ScriptSegmenter.segment_script
SegmentScript(text, duration) ==
    GroupSentences(SplitIntoSentences(text), 1, TargetWordsPerSegment(duration),
                   <<>>, <<>>, 0, 1)

\* the pieces the scripts are put together from
Pieces ==
    { <<"a", ".">>, <<"a", " ", "b", "!", " ">>, <<"a", " ", "b", " ", "c", "?">>,
      <<" ">>, <<".", ".">>, <<"a">> }

RECURSIVE Concat(_)
Concat(ss) == IF ss = <<>> THEN <<>> ELSE Head(ss) \o Concat(Tail(ss))

Scripts == { Concat(ps) : ps \in UNION { [1..n -> Pieces] : n \in 0..MaxPieces } }

\* config.segment_duration: an int, 4 unless SEGMENT_DURATION is set
SegmentDurations == {0, 1, 4}

InitSegmenter ==
    /\ IdleRun
    /\ other = NoOther
    /\ tts_text = <<>>
    /\ subtitle_text = <<>>
    /\ media_texts = <<>>
    /\ used_media_paths = {}
    /\ image_paths = <<>>
    /\ media_pc = "Idle"
    /\ script \in Scripts
    /\ target_segment_duration \in SegmentDurations
    /\ script_segments = <<>>

\* script_segments = self.script_segmenter.segment_script(korean_script)
CallSegmentScript ==
    /\ script_segments = <<>>
    /\ script_segments' = <<SegmentScript(script, target_segment_duration)>>
    /\ UNCHANGED <<run_vars, text_vars, media_vars, script, target_segment_duration, other>>

SpecSegmenter == InitSegmenter /\ [][CallSegmentScript]_vars

\* the runs with every step taken that can be taken: the engine does the
\* next thing whenever there is one
FairSpec == Init /\ [][NextHang]_vars /\ WF_vars(NextHang)

-----------------------------------------------------------------------------
(* Properties *)

Terminated == pc \in {"Done", "Failed"}

\* the intermediate artifacts of a run
Intermediates == ClipNames \cup {"concatenated", "concatenated_audio", "subtitles"}

\* the names a final artifact is written under
FinalNames == {"final_shorts", "final_video"}

\* the sites of the final mux itself and of the verification of its output
MuxSites == {"final_mux", "verify_missing", "verify_empty"}

\* C1: when background music is enabled and its generation fails, the run is
\* not failed by that: it goes on to the final mux with the narration-only
\* track, so it can fail only in the mux or the verification, and when it is
\* Done the mux ran without music and the final artifact exists and is
\* non-empty.
C1_MusicFailureDegrades ==
    (enable_background_music /\ bgm_result = "failed") =>
        /\ pc = "Failed" => failed_site \in MuxSites
        /\ pc = "Done" => /\ mux.ran /\ ~mux.music
                          /\ files[final_video] = "data"

\* C2: after a run has terminated, in Done or in Failed, none of the
\* intermediate artifacts (clips, concatenated video, concatenated audio,
\* subtitle file) exists.
C2_NoIntermediateLeft ==
    Terminated => \A f \in Intermediates : files[f] = "absent"

\* the events written for segment k
EventsOf(k) == SelectSeq(events, LAMBDA e : e.segment = k)

EventSpan(evs) == SumSeq([j \in 1..Len(evs) |-> evs[j].end_time - evs[j].start_time])

\* f = <<n, d>> is the factor that d1 was divided by to give d2
DividedBy(d1, d2, f) == d2 * f[1] = d1 * f[2]

\* C3: in every run that reaches the final mux, with subtitles or without,
\* the tempo factor of the muxed narration is the factor every clip duration
\* was divided by and the factor every segment's subtitle time was divided by.
C3_OneSpeedFactor ==
    mux.ran =>
        /\ \A k \in 1..Len(clip_requests) :
              DividedBy(Cs(segments_data[k].audio_duration),
                        clip_requests[k].duration, mux.audio_tempo)
        /\ enable_subtitles =>
              \A k \in 1..Len(segments_data) :
                  EventsOf(k) # <<>> =>
                      DividedBy(Cs(segments_data[k].audio_duration),
                                EventSpan(EventsOf(k)), mux.audio_tempo)

\* the moves from one stage to the next that the order of the stages allows
StageSteps ==
    { <<"Idle", "SynthesizingClips">>,
      <<"SynthesizingClips", "ConcatenatingVideo">>,
      <<"ConcatenatingVideo", "ConcatenatingAudio">>,
      <<"BuildingSubtitles", "FinalMux">>,
      <<"FinalMux", "Done">> } \cup
    (IF enable_subtitles THEN {<<"ConcatenatingAudio", "BuildingSubtitles">>}
                         ELSE {<<"ConcatenatingAudio", "FinalMux">>}) \cup
    { <<st, "Failed">> : st \in {"Idle", "SynthesizingClips", "ConcatenatingVideo",
                                 "ConcatenatingAudio", "BuildingSubtitles", "FinalMux"} }

AfterClips == {"ConcatenatingVideo", "ConcatenatingAudio", "BuildingSubtitles",
               "FinalMux", "Done"}

AfterConcatenation == {"ConcatenatingAudio", "BuildingSubtitles", "FinalMux", "Done"}

C4_StageState ==
    /\ pc \in AfterClips =>
          /\ Len(video_clips) = Len(segments_data)
          /\ \A k \in 1..Len(segments_data) : clip_requests[k].segment = k
    /\ pc \in AfterConcatenation => concatenated_video # None
    /\ pc = "BuildingSubtitles" => enable_subtitles
    /\ mux.ran => concatenated_video # None
    /\ events # <<>> => enable_subtitles

C4_StageStep ==
    /\ pc' # pc => <<pc, pc'>> \in StageSteps
    /\ pc \in {"Done", "Failed"} => pc' = pc
    /\ Len(clip_requests') > Len(clip_requests) => pc = "SynthesizingClips"
    /\ (~mux.ran /\ mux'.ran) => pc = "FinalMux"

\* C4: the stages of a run occur only in the order SynthesizingClips,
\* ConcatenatingVideo, ConcatenatingAudio, BuildingSubtitles (with subtitles
\* enabled only), FinalMux, Done; the video concatenation starts only when
\* every segment has its clip, the final mux only after both concatenations,
\* and a failure leads to Failed, where the run stays and starts nothing.
C4_StageOrder == [] C4_StageState /\ [][C4_StageStep]_vars

C4_Witness ==
    /\ pc = "Done" /\ enable_subtitles /\ Len(video_clips) = 2
    /\ mux.ran /\ events # <<>>

\* C5: a file exists under a final artifact's name only when it has passed
\* the verification: the run is Done, the file is the one returned and it
\* holds data; a failed run leaves no file under a final name.
C5_FinalOnlyVerified ==
    \A f \in FinalNames :
        files[f] # "absent" => (pc = "Done" /\ final_video = f /\ files[f] = "data")

\* a duration rounded to the nearest centisecond
RoundCs(t) == (2 * t + TicksPerCs) \div (2 * TicksPerCs)

ExampleClipCs == <<333, 500, 417>>

\* C6: the clip of every segment is requested with the duration
\* audio_duration / speed_factor, so the durations of all clips sum to the
\* sum of the audio durations divided by the speed factor; the audio
\* durations [4.0, 6.0, 5.0] give [3.33, 5.0, 4.17] and 12.5 in total.
C6_ClipDurations ==
    /\ \A k \in 1..Len(clip_requests) :
          /\ clip_requests[k].segment = k
          /\ DividedBy(Cs(segments_data[k].audio_duration),
                       clip_requests[k].duration, <<SpeedNum, SpeedDen>>)
          /\ segments_data = ExampleSegments =>
                RoundCs(clip_requests[k].duration) = ExampleClipCs[k]
    /\ Len(clip_requests) = Len(segments_data) =>
          LET total == SumSeq([k \in 1..Len(clip_requests) |-> clip_requests[k].duration])
              audio == SumSeq([k \in 1..Len(segments_data) |->
                                  Cs(segments_data[k].audio_duration)])
          IN /\ DividedBy(audio, total, <<SpeedNum, SpeedDen>>)
             /\ total = TotalAudioDuration(segments_data)
             /\ segments_data = ExampleSegments => total = Cs(1250)

C6_Witness ==
    /\ segments_data = ExampleSegments
    /\ Len(clip_requests) = 3
    /\ pc = "ConcatenatingVideo"

\* a timestamp H:MM:SS.CC of the subtitle file read back, in centiseconds
Stamp(st) == st[1] * 360000 + st[2] * 6000 + st[3] * 100 + st[4]

\* C7 as claimed: the events written to the subtitle file have strictly
\* increasing start times, no event ends after the next one starts, and the
\* last event ends no later than the sum of the audio durations divided by
\* the speed factor.
C7_CaptionsOrdered ==
    /\ \A k \in 1..(Len(events) - 1) :
          /\ Stamp(events[k].Start) < Stamp(events[k + 1].Start)
          /\ Stamp(events[k].End) <= Stamp(events[k + 1].Start)
    /\ events # <<>> =>
          Cs(Stamp(Last(events).End)) <= TotalAudioDuration(segments_data)

\* C7 (amended): the computed start times are strictly increasing and every
\* event ends after it starts; the timestamps written, which are truncated
\* to centiseconds, never decrease, and increase strictly after every event
\* that lasts at least one centisecond; no event ends after the next one
\* starts; the last event ends no later than the sum of the audio durations
\* divided by the speed factor.
C7_CaptionsOrderedAmended ==
    /\ \A k \in 1..Len(events) : events[k].start_time < events[k].end_time
    /\ \A k \in 1..(Len(events) - 1) :
          /\ events[k].start_time < events[k + 1].start_time
          /\ events[k].end_time <= events[k + 1].start_time
          /\ Stamp(events[k].Start) <= Stamp(events[k + 1].Start)
          /\ Stamp(events[k].End) <= Stamp(events[k + 1].Start)
          /\ events[k].end_time - events[k].start_time >= TicksPerCs =>
                Stamp(events[k].Start) < Stamp(events[k + 1].Start)
    /\ events # <<>> =>
          /\ Last(events).end_time <= TotalAudioDuration(segments_data)
          /\ Cs(Stamp(Last(events).End)) <= TotalAudioDuration(segments_data)

C7_Witness ==
    /\ Len(events) >= 3
    /\ \E k \in 1..Len(segments_data) : WordsOf(segments_data[k].text) = <<>>
    /\ \E k \in 1..(Len(events) - 1) : events[k].segment # events[k + 1].segment

\* C8: the events are written in segment order and without a gap: every
\* event starts when the event written before it ends, within a segment and
\* from the last chunk of a segment to the first chunk of the next.
C8_ZeroGap ==
    \A k \in 1..(Len(events) - 1) :
        /\ events[k].segment <= events[k + 1].segment
        /\ events[k + 1].start_time = events[k].end_time
        /\ events[k + 1].Start = events[k].End

C8_Witness ==
    /\ \E k \in 1..(Len(events) - 1) : events[k].segment # events[k + 1].segment
    /\ \E k \in 1..(Len(events) - 1) : events[k].segment = events[k + 1].segment

\* the characters of a Dialogue text between the hard spaces
StripHardSpaces(text) ==
    SubSeq(text, Len(HardSpaces) + 1, Len(text) - Len(HardSpaces))

RECURSIVE Flatten(_)
Flatten(ss) == IF ss = <<>> THEN <<>> ELSE Head(ss) \o Flatten(Tail(ss))

RECURSIVE LinesOf(_)
\* the display lines of a text: the parts between the \N marks
LinesOf(t) ==
    LET marks == { q \in 1..(Len(t) - 1) : t[q] = "\\" /\ t[q + 1] = "N" }
    IN IF marks = {} THEN <<t>>
       ELSE LET q == CHOOSE m \in marks : \A n \in marks : m <= n
            IN <<SubSeq(t, 1, q - 1)>> \o LinesOf(Drop(t, q + 1))

EventLines(e) == LinesOf(StripHardSpaces(e.Text))

\* the tokens of an event as displayed: line 1's, then line 2's
EventTokens(e) ==
    LET lines == EventLines(e)
    IN Flatten([j \in 1..Len(lines) |-> Split(lines[j])])

\* the j-th chunk of a word list
ChunkOf(words, j) ==
    SubSeq(words, total_words_per_subtitle * (j - 1) + 1,
           IF total_words_per_subtitle * j <= Len(words)
           THEN total_words_per_subtitle * j ELSE Len(words))

SubtitlesWritten == enable_subtitles /\ pc \in {"FinalMux", "Done"}

\* C9: for every caption chunk the tokens displayed on line 1 followed by
\* those on line 2 are the tokens of the chunk, whole and in their order:
\* none is split, dropped, duplicated or moved.
C9_TokensKept ==
    \A k \in 1..Len(segments_data) :
        LET words == WordsOf(segments_data[k].text)
            evs   == EventsOf(k)
        IN /\ SubtitlesWritten =>
                 Len(evs) * total_words_per_subtitle >= Len(words)
           /\ \A j \in 1..Len(evs) :
                 /\ EventTokens(evs[j]) = ChunkOf(words, j)
                 /\ Len(EventLines(evs[j])) \in {1, 2}
                 /\ \A l \in 1..Len(EventLines(evs[j])) :
                       LET line == EventLines(evs[j])[l]
                       IN line # <<>> /\ Join(Split(line)) = line

\* a chunk whose line 1 gave a word to line 2
C9_Witness ==
    \E k \in 1..Len(events) :
        LET lines == EventLines(events[k])
        IN /\ Len(lines) = 2
           /\ Len(Split(lines[1])) = 1
           /\ Len(Split(lines[2])) >= 2

\* the stage a site belongs to
StageOfSite(site) ==
    CASE site \in {"image_clip", "video_probe", "video_clip"} -> "ClipSynthesis"
      [] site \in {"concat_no_paths", "concat_input_missing", "concat_encoder",
                   "concat_output_missing", "concat_output_empty"} -> "Concatenation"
      [] site = "audio_concat" -> "AudioMix"
      [] site = "subtitle_write" -> "SubtitleBuild"
      [] site \in {"no_segments", "mkdir"} -> "Input"
      [] OTHER -> "FinalMux"

Details == Stderrs \cup FileNames \cup {"[Errno 28] No space left on device", "output"}

\* C10: the failure the caller receives identifies the stage that failed: no
\* failure of another stage gives the caller the same error.
C10_StageIdentified ==
    pc = "Failed" =>
        /\ error.type \in {"ClipSynthesisError", "ConcatenationError", "AudioMixError",
                           "SubtitleBuildError", "FinalMuxError", "VideoCompositionError"}
        /\ \A site \in Sites, d \in Details :
              StageOfSite(site) # StageOfSite(failed_site) => ErrorAt(site, d) # error

\* the stages whose process is the external encoder
EncoderStages == {"clip", "concat_video", "concat_audio", "final_mux"}

\* the text is one of the parts the message is put together from, or the
\* error's ffmpeg_output
Carries(err, text) ==
    \/ \E j \in 1..Len(err.message) : err.message[j] = text
    \/ err.ffmpeg_output = text

\* C11: when an encoder invocation of any stage (clip, video concatenation,
\* audio concatenation, final mux) exits non-zero with a text on stderr, the
\* error the caller receives carries that text.
C11_StderrCarried ==
    (/\ pc = "Failed"
     /\ invocations # <<>>
     /\ Last(invocations).stage \in EncoderStages
     /\ Last(invocations).exit # 0
     /\ Last(invocations).stderr # "")
        => Carries(error, Last(invocations).stderr)

\* C12: a path is returned only by a run that is Done, and the file at that
\* path exists and is non-empty; when the final mux exits 0 and leaves a
\* missing or empty final file, the run raises VideoCompositionError and
\* returns nothing, with subtitles and without.
C12_ReturnedFileExists ==
    /\ final_video # None => (pc = "Done" /\ files[final_video] = "data")
    /\ pc = "Done" => final_video = mux.output
    /\ (/\ mux.ran
        /\ Last(invocations).stage = "final_mux"
        /\ Last(invocations).exit = 0
        /\ files[mux.output] # "data")
           => /\ pc = "Failed"
              /\ error.type = "VideoCompositionError"
              /\ final_video = None

\* the final mux of a subtitled run exited 0 and left an empty file
C12_Witness ==
    /\ enable_subtitles
    /\ mux.ran
    /\ Last(invocations).exit = 0
    /\ files[mux.output] = "empty"
    /\ pc = "Failed"

\* C13: when the caller interrupts a run that waits for an external
\* process, that process is terminated and none of the files the run has
\* created as intermediates is left.
C13_AbortCleansUp ==
    pc = "Interrupted" =>
        /\ Last(invocations).exit = Killed
        /\ \A f \in Intermediates \cup {"concat_list", "audio_list"} :
              files[f] = "absent"

\* C14: every run ends in Done or Failed; a process that does not exit does
\* not keep the run waiting for ever.
C14_Terminates == <>(pc \in {"Done", "Failed"})

C16_State ==
    /\ \A i, j \in 1..Len(invocations) :
          (invocations[i].stage = invocations[j].stage
           /\ invocations[i].index = invocations[j].index) => i = j
    /\ \A i \in 1..Len(invocations) :
          (invocations[i].exit # 0 /\ invocations[i].stage # "bgm")
              => (i = Len(invocations) /\ pc = "Failed")

C16_Step == pc = "Failed" => invocations' = invocations

C15_LoopCoversTarget ==
    \A k \in 1..Len(clip_requests) :
        LET request == clip_requests[k]
            d       == Cs(segments_data[k].video_duration)
            t       == request.duration
        IN (request.source = "video" /\ 0 < d /\ d < t) =>
              /\ DividedBy(Cs(segments_data[k].audio_duration), t,
                           <<SpeedNum, SpeedDen>>)
              /\ request.stream_loop > 0
              /\ request.stream_loop * d >= t

\* two looped clips were requested: one whose target is a multiple of the
\* source's duration, one whose target is not
C15_Witness ==
    /\ Len(clip_requests) = 2
    /\ \A k \in 1..2 :
          /\ clip_requests[k].source = "video"
          /\ clip_requests[k].stream_loop > 0
    /\ clip_requests[1].duration % Cs(segments_data[1].video_duration) = 0
    /\ clip_requests[2].duration % Cs(segments_data[2].video_duration) # 0

\* the overlay text the claim gives for a title, as it is handed on with
\* its apostrophes escaped
ClaimedOverlay(title) ==
    EscapeQuote(IF Len(title) > max_title_length
                THEN SubSeq(title, 1, max_title_length) \o Ellipsis
                ELSE title)

\* C17: the overlay text of every clip is the segment's title unchanged
\* when the title has at most 10 characters, and the title's first 10
\* characters followed by "..." when it has more; it never has more than
\* 13 characters.
C17_TitleTruncated ==
    \A k \in 1..Len(clip_requests) :
        /\ clip_requests[k].title = ClaimedOverlay(segments_data[k].title)
        /\ Len(clip_requests[k].title) <= max_title_length + Len(Ellipsis)

\* C20: every caption event shows a chunk of 1 to 4 consecutive tokens of
\* its segment; a chunk of one token is shown on one line, a chunk of two
\* or more tokens on exactly two non-empty lines; line 1 has at most 12
\* characters or is a single token.
C20_ChunksAndLines ==
    \A k \in 1..Len(segments_data) :
        LET words == WordsOf(segments_data[k].text)
            evs   == EventsOf(k)
        IN \A j \in 1..Len(evs) :
              LET lines  == EventLines(evs[j])
                  tokens == EventTokens(evs[j])
              IN /\ Len(tokens) \in 1..total_words_per_subtitle
                 /\ tokens = ChunkOf(words, j)
                 /\ Len(tokens) = 1 => Len(lines) = 1
                 /\ Len(tokens) >= 2 =>
                       (Len(lines) = 2 /\ lines[1] # <<>> /\ lines[2] # <<>>)
                 /\ \/ Len(lines[1]) <= max_chars_per_line
                    \/ Len(Split(lines[1])) = 1

\* the events written include a chunk of one token, a chunk whose line 1 is
\* a single token longer than 12 characters, and a chunk of four tokens
C20_Witness ==
    /\ \E k \in 1..Len(events) : Len(EventTokens(events[k])) = 1
    /\ \E k \in 1..Len(events) :
          /\ Len(EventLines(events[k])[1]) > max_chars_per_line
          /\ Len(EventLines(events[k])) = 2
    /\ \E k \in 1..Len(events) :
          Len(EventTokens(events[k])) = total_words_per_subtitle

NumberWords == Digits \cup {"man", "eok", "baek", "cheon", "sip", "jo"}

\* what src/test_comprehensive_fixes.py expects for its inputs
TestExpectations ==
    { << <<"geun", "won">>, <<"geun", "won">> >>,
      << <<"1", "0", "0", "won">>, <<"1", "0", "0", "W">> >>,
      << <<"man", "won">>, <<"man", "W">> >>,
      << <<"il", "cheon", "i", "baek", "eok">>, <<"il", "cheon", "i", "baek", "eok">> >>,
      << <<"baek", "eok">>, <<"1", "0", "0", "eok">> >>,
      << <<"jak", "nyeon", "il", "bun", "gi">>, <<"jak", "nyeon", "il", "bun", "gi">> >> }

\* C19: the conversion replaces "won" by the currency sign only after a
\* digit or a number word and 100 eok only where it stands alone: the test
\* inputs give the test's expectations, and a "won" that follows another
\* syllable stays as it is.
C19_UnitsOnly ==
    \A j \in 1..Len(subtitle_text) :
        /\ \A e \in TestExpectations : tts_text = e[1] => subtitle_text[j] = e[2]
        /\ (/\ Len(tts_text) = 2
            /\ tts_text[2] = "won"
            /\ tts_text[1] \notin NumberWords \cup {"won"})
               => subtitle_text[j] = tts_text

\* C21: for every segment with at least one token, the durations of its
\* caption events sum to exactly audio_duration / speed_factor, and the
\* tokens its events display are as many as the tokens of the converted
\* text, also when the conversion merges tokens.
C21_CaptionSpan ==
    SubtitlesWritten =>
        \A k \in 1..Len(segments_data) :
            LET words == WordsOf(segments_data[k].text)
                evs   == EventsOf(k)
            IN Len(words) >= 1 =>
                  /\ DividedBy(Cs(segments_data[k].audio_duration), EventSpan(evs),
                               <<SpeedNum, SpeedDen>>)
                  /\ SumSeq([j \in 1..Len(evs) |-> Len(EventTokens(evs[j]))]) = Len(words)

\* the events of a segment whose text the conversion shortens by a token,
\* and of a segment shown in two chunks
C21_Witness ==
    /\ SubtitlesWritten
    /\ \E k \in 1..Len(segments_data) :
          /\ Len(WordsOf(segments_data[k].text)) < Len(Split(segments_data[k].text))
          /\ EventsOf(k) # <<>>
    /\ \E k \in 1..Len(segments_data) : Len(EventsOf(k)) >= 2

\* C22: whenever the video concatenation has given the silent video track,
\* for every non-empty list of clips and also for a list of one clip, the
\* track is the output of an encoder invocation of that stage and is none of
\* the clips handed on as it is.
C22_ConcatenationEncodes ==
    (pc \in AfterConcatenation /\ video_clips # <<>>) =>
        /\ \E i \in 1..Len(invocations) :
              invocations[i].stage = "concat_video" /\ invocations[i].exit = 0
        /\ \A k \in 1..Len(video_clips) : concatenated_video # video_clips[k]

\* the sites of the failures of a stage that runs the encoder
SitesOfStage(stage) ==
    CASE stage = "clip" -> {"image_clip", "video_clip"}
      [] stage = "concat_video" -> {"concat_encoder", "concat_output_missing",
                                    "concat_output_empty"}
      [] stage = "concat_audio" -> {"audio_concat"}
      [] OTHER -> {}

\* C23: a clip render, the video concatenation or the audio concatenation
\* that exits 0 and leaves a missing or empty output file fails the run at
\* that stage: it is the last invocation of the run, and the run is Failed
\* at a site of that stage.
C23_OutputRequired ==
    \A i \in 1..Len(invocations) :
        (/\ invocations[i].stage \in {"clip", "concat_video", "concat_audio"}
         /\ invocations[i].exit = 0
         /\ invocations[i].out # "data")
            => /\ i = Len(invocations)
               /\ pc = "Failed"
               /\ failed_site \in SitesOfStage(invocations[i].stage)

\* the invocations of a stage that the run has made
InvocationsOf(stage) == SelectSeq(invocations, LAMBDA v : v.stage = stage)

\* the offset at which the k-th of the durations starts
OffsetOf(durations, k) == SumSeq(SubSeq(durations, 1, k - 1))

\* the duration of every segment's narration played at the speed factor
SpedUpNarration == [k \in 1..Len(segments_data) |-> ClipDuration(segments_data[k])]

\* C24: the clips and the narration files are concatenated in the order of
\* the segment list: the k-th clip of the video track is the clip of segment
\* k and the k-th file of the narration track is the audio of segment k, so
\* clip k starts in the video track at the offset at which the narration of
\* segment k starts in the narration track played at the speed factor.
C24_SameOrder ==
    /\ \A i \in 1..Len(invocations) :
          LET v == invocations[i]
          IN /\ v.stage = "concat_video" =>
                   /\ Len(v.inputs) = Len(segments_data)
                   /\ \A k \in 1..Len(v.inputs) :
                         /\ clip_requests[k].segment = k
                         /\ v.inputs[k] = clip_requests[k].output
             /\ v.stage = "concat_audio" =>
                   /\ Len(v.inputs) = Len(segments_data)
                   /\ \A k \in 1..Len(v.inputs) :
                         /\ v.inputs[k] = k
                         /\ OffsetOf([j \in 1..Len(clip_requests) |->
                                         clip_requests[j].duration], k)
                               = OffsetOf(SpedUpNarration, v.inputs[k])
    /\ (pc \in AfterConcatenation /\ Len(video_clips) = 1) =>
          concatenated_video = clip_requests[1].output

\* both lists of a run of two segments of different durations were handed
\* to the encoder
C24_Witness ==
    /\ Len(segments_data) = 2
    /\ segments_data[1].audio_duration # segments_data[2].audio_duration
    /\ InvocationsOf("concat_video") # <<>>
    /\ InvocationsOf("concat_audio") # <<>>

\* C27: the first caption event of every segment k with at least one token
\* starts at the sum of audio_duration / speed_factor over the segments
\* before k, the moment clip k starts in the video track, and its last
\* event ends when clip k ends, also after a segment with empty text.
C27_CaptionsAtClip ==
    SubtitlesWritten =>
        \A k \in 1..Len(segments_data) :
            LET evs == EventsOf(k)
            IN WordsOf(segments_data[k].text) # <<>> =>
                  /\ evs # <<>>
                  /\ evs[1].start_time = OffsetOf(SpedUpNarration, k)
                  /\ evs[Len(evs)].end_time = OffsetOf(SpedUpNarration, k + 1)

\* C28: after a run that is Done, the final artifact is the only file in
\* the output directory that the run has written: clips, concatenated video
\* and audio, list files, subtitle file, music file and icon are gone.
C28_OnlyFinalLeft ==
    pc = "Done" => \A f \in FileNames \ {final_video} : files[f] = "absent"

\* the files of the media directory that are videos
PredefinedVideos ==
    { f \in UNION { media_dir[folder] : folder \in DOMAIN media_dir } :
         Suffix(f) \in VideoSuffixes }

\* C25: within one video no predefined video file is selected for two
\* segments: the videos selected have pairwise different resolved paths,
\* and the resolved path of every video selected so far is in the used set
\* when the next segment is matched; images may be selected again.
C25_NoVideoTwice ==
    /\ \A i, j \in 1..Len(image_paths) :
          (i < j /\ image_paths[i] \in PredefinedVideos
                 /\ image_paths[j] \in PredefinedVideos)
             => Resolve(image_paths[i]) # Resolve(image_paths[j])
    /\ \A i \in 1..Len(image_paths) :
          image_paths[i] \in PredefinedVideos
             => Resolve(image_paths[i]) \in used_media_paths

RECURSIVE SortedCuts(_)
\* the numbers of a set in increasing order
SortedCuts(S) ==
    IF S = {} THEN <<>>
    ELSE LET m == CHOOSE x \in S : \A y \in S : x <= y
         IN <<m>> \o SortedCuts(S \ {m})

\* the k-th run of the sentences cut after the positions in cuts
RunOf(sentences, cuts, k) ==
    LET ends == SortedCuts(cuts \cup {Len(sentences)})
    IN SubSeq(sentences, (IF k = 1 THEN 0 ELSE ends[k - 1]) + 1, ends[k])

\* C26: the segments segment_script returns are the sentences of the script
\* cut into contiguous non-empty runs in their order: every sentence is in
\* exactly one segment, the order is kept, and the segments are numbered
\* 1..N in the order in which they are returned.
C26_Partition ==
    \A r \in 1..Len(script_segments) :
        LET segments  == script_segments[r]
            sentences == SplitIntoSentences(script)
        IN IF sentences = <<>> THEN segments = <<>>
           ELSE /\ \E cuts \in SUBSET (1..(Len(sentences) - 1)) :
                      /\ Len(segments) = Cardinality(cuts) + 1
                      /\ \A k \in 1..Len(segments) :
                            /\ RunOf(sentences, cuts, k) # <<>>
                            /\ segments[k].text = Join(RunOf(sentences, cuts, k))
                            /\ segments[k].word_count =
                                  Len(Split(Join(RunOf(sentences, cuts, k))))
                /\ \A k \in 1..Len(segments) : segments[k].segment_number = k

\* a script of four sentences or more was cut into two segments or more,
\* one of which holds two sentences or more
C26_Witness ==
    /\ script_segments # <<>>
    /\ Len(SplitIntoSentences(script)) >= 4
    /\ Len(script_segments[1]) >= 2
    /\ Len(script_segments[1]) < Len(SplitIntoSentences(script))

\* C30: a run that has failed, at whatever site, has given its caller a
\* VideoCompositionError and no exception of another type.
C30_OneErrorType ==
    pc = "Failed" => error.type = "VideoCompositionError"

\* the paths this run has written so far
WrittenPaths ==
    LET stages == { invocations[k].stage : k \in 1..Len(invocations) }
        names  == { clip_requests[k].output : k \in 1..Len(clip_requests) } \cup
                  (IF "concat_video" \in stages
                   THEN {"concat_list", "concatenated"} ELSE {}) \cup
                  (IF "concat_audio" \in stages
                   THEN {"audio_list", "concatenated_audio"} ELSE {}) \cup
                  (IF events # <<>> \/ failed_site = "subtitle_write"
                   THEN {"subtitles"} ELSE {}) \cup
                  (IF "final_mux" \in stages THEN {"final_shorts"} ELSE {})
    IN { Path(name, timestamp, concat_times) : name \in names }

\* the paths the other run has written so far
OtherWrittenPaths ==
    { Path(OtherSteps[k].name, other.timestamp, other.concat_times) :
        k \in { j \in 1..other.step : OtherSteps[j].op = "write" } }

\* C29: two runs that share an output directory never write to the same
\* clip, concat list, concatenated video, audio list, concatenated audio,
\* subtitle or final path, whatever the seconds the two runs start in.
C29_DisjointPaths == WrittenPaths \cap OtherWrittenPaths = {}

=============================================================================
